---- MODULE Spec2Model ----
(***************************************************************************)
(* xvsh: a line-oriented shell for xv6 (src/xvsh.c).                       *)
(*                                                                         *)
(* The shell process reads a line, tokenizes it in place (strtok_custom),  *)
(* classifies it (exit / pipeline / redirection / plain) and runs it with  *)
(* fork, pipe, open, dup, close, exec and wait.  The model keeps the input *)
(* buffer as an array of characters whose delimiters are overwritten by    *)
(* NUL, pointers as indexes into it, the descriptor table of the shell and *)
(* of every child, and the children of the shell with their life cycle     *)
(* forked -> running -> zombie -> reaped.                                  *)
(***************************************************************************)
EXTENDS Integers, Sequences, FiniteSets, TLC

(***************************************************************************)
(* Bounds of the model.                                                    *)
(***************************************************************************)
\* command lines read before end-of-input
MaxLines == 2
\* number of slots of a process's descriptor table
NOFILE == 16
\* number of children the process table has room for
MaxProc == 4

(***************************************************************************)
(* Program constants.                                                      *)
(***************************************************************************)
MAXTOKENS == 16

\* the null pointer, and the terminator character of a C string
NULL_PTR == 0
NUL == "NUL"

(***************************************************************************)
(* C strings in the buffer.  A pointer is an index 1..Len(buf) of buf.     *)
(***************************************************************************)
\* index of the terminator of the string starting at p
RECURSIVE StrEnd(_, _)
StrEnd(buf, p) == IF buf[p] = NUL THEN p ELSE StrEnd(buf, p + 1)

\* the characters of the C string at pointer p; <<>> for the null pointer
CStr(buf, p) ==
    IF p = NULL_PTR THEN <<>> ELSE SubSeq(buf, p, StrEnd(buf, p) - 1)

\* strcmp(p, lit) == 0
StrEq(buf, p, lit) == p # NULL_PTR /\ CStr(buf, p) = lit

(***************************************************************************)
(* strtok_custom (src/xvsh.c:24-64).  `last` is the static cursor.  The    *)
(* result is the returned token pointer, the new cursor and the buffer.    *)
(***************************************************************************)
\* the scan starting at s without skipping anything
SkipDelims_None(buf, s, delim) == s

\* lines 34-39: first position at or after s whose character is no delimiter
RECURSIVE SkipDelims(_, _, _)
SkipDelims(buf, s, delim) ==
    IF buf[s] \in delim THEN SkipDelims(buf, s + 1, delim) ELSE s

\* lines 49-62: first position at or after s holding a delimiter or NUL
RECURSIVE ScanToken(_, _, _)
ScanToken(buf, s, delim) ==
    IF buf[s] \in delim \/ buf[s] = NUL THEN s ELSE ScanToken(buf, s + 1, delim)

strtok_custom(buf, last, s, delim) ==
    LET s0 == IF s = NULL_PTR THEN last ELSE s IN
    IF s0 = NULL_PTR
    THEN [tok |-> NULL_PTR, last |-> last, buf |-> buf]
    ELSE LET start == SkipDelims(buf, s0, delim) IN
         IF buf[start] = NUL
         THEN [tok |-> NULL_PTR, last |-> NULL_PTR, buf |-> buf]
         ELSE LET e == ScanToken(buf, start + 1, delim) IN
              IF buf[e] = NUL
              THEN [tok |-> start, last |-> NULL_PTR, buf |-> buf]
              ELSE [tok |-> start, last |-> e + 1,
                    buf |-> [buf EXCEPT ![e] = NUL]]

(***************************************************************************)
(* process_one_cmd, parsing part (src/xvsh.c:251-312).                     *)
(***************************************************************************)
\* lines 255-262: the loop filling tok[1..]; toks is tok[0..i-1], the result
\* is the token array with its terminating null entry, the flag and buffer
RECURSIVE TokLoop(_, _, _)
TokLoop(buf, last, toks) ==
    LET r == strtok_custom(buf, last, NULL_PTR, {" "}) IN
    IF r.tok = NULL_PTR
    THEN [tok |-> Append(toks, NULL_PTR), bg |-> FALSE,
          buf |-> r.buf, last |-> r.last]
    ELSE IF StrEq(r.buf, r.tok, <<"&">>)
         THEN [tok |-> Append(toks, NULL_PTR), bg |-> TRUE,
               buf |-> r.buf, last |-> r.last]
         ELSE TokLoop(r.buf, r.last, Append(toks, r.tok))

\* the token array filled without the token of line 252
Tokenize_NoFirst(buf, last) ==
    LET r == strtok_custom(buf, last, 1, {" "}) IN
    TokLoop(r.buf, r.last, <<>>)

\* lines 251-262
Tokenize(buf, last) ==
    LET r == strtok_custom(buf, last, 1, {" "}) IN
    TokLoop(r.buf, r.last, <<r.tok>>)

\* exit_check (lines 67-69); tok[1] models tok[0]
exit_check(buf, tok) == tok[1] # NULL_PTR /\ StrEq(buf, tok[1], <<"e", "x", "i", "t">>)

\* the entries of tok before its first null entry
RECURSIVE UpToNull(_)
UpToNull(tok) ==
    IF tok = <<>> \/ Head(tok) = NULL_PTR THEN <<>>
    ELSE <<Head(tok)>> \o UpToNull(Tail(tok))

\* lines 272-278 and 297-303: some entry before the terminator equals sym
HasToken(buf, tok, sym) ==
    \E k \in 1..Len(UpToNull(tok)) : StrEq(buf, tok[k], <<sym>>)

\* lines 287 and 110: while (*cmd == ' ') cmd++
RECURSIVE TrimSpaces(_, _)
TrimSpaces(buf, p) == IF buf[p] = " " THEN TrimSpaces(buf, p + 1) ELSE p

\* lines 284-291: split the buffer on '|' into at most MAXTOKENS commands
RECURSIVE SplitLoop(_, _, _, _)
SplitLoop(buf, last, cmd, commands) ==
    IF cmd # NULL_PTR /\ Len(commands) < MAXTOKENS
    THEN LET r == strtok_custom(buf, last, NULL_PTR, {"|"}) IN
         SplitLoop(r.buf, r.last, r.tok, Append(commands, TrimSpaces(buf, cmd)))
    ELSE [commands |-> commands, buf |-> buf, last |-> last]

SplitPipe(buf, last) ==
    LET r == strtok_custom(buf, last, 1, {"|"}) IN
    SplitLoop(r.buf, r.last, r.tok, <<>>)

\* lines 129-134: the argument vector of one pipeline stage (without the
\* terminating null entry)
RECURSIVE ArgLoop(_, _, _, _)
ArgLoop(buf, last, tk, args) ==
    IF tk # NULL_PTR /\ Len(args) < MAXTOKENS - 1
    THEN LET r == strtok_custom(buf, last, NULL_PTR, {" "}) IN
         ArgLoop(r.buf, r.last, r.tok, Append(args, tk))
    ELSE [args |-> args, buf |-> buf, last |-> last]

StageArgs(buf, last, cmd) ==
    LET r == strtok_custom(buf, last, cmd, {" "}) IN
    ArgLoop(r.buf, r.last, r.tok, <<>>)

(***************************************************************************)
(* Descriptor tables.  A table maps 0..NOFILE-1 to an open-file object: the *)
(* console, one end of a pipe, a file, or Free.                            *)
(***************************************************************************)
Fds == 0..(NOFILE - 1)
Free == [t |-> "free", id |-> 0, e |-> <<>>]
Console == [t |-> "console", id |-> 0, e |-> <<>>]
PipeEnd(k, end) == [t |-> "pipe", id |-> k, e |-> <<end>>]
FileObj(path) == [t |-> "file", id |-> 0, e |-> path]

\* the table of the shell when it starts: 0, 1 and 2 are the console
InitFds == [fd \in Fds |-> IF fd <= 2 THEN Console ELSE Free]

\* the descriptor a successful allocation returns: the lowest free slot at
\* or after fd, -1 when there is none
RECURSIVE FirstFree(_, _)
FirstFree(tab, fd) ==
    IF fd >= NOFILE THEN -1
    ELSE IF tab[fd] = Free THEN fd
    ELSE FirstFree(tab, fd + 1)

LowestFree(tab) == FirstFree(tab, 0)

IsOpen(tab, fd) == fd \in Fds /\ tab[fd] # Free

\* dup(fd): the lowest free slot becomes another reference to fd's object
Dup(tab, fd) ==
    LET new == LowestFree(tab) IN
    IF IsOpen(tab, fd) /\ new # -1
    THEN [tab EXCEPT ![new] = tab[fd]]
    ELSE tab

\* close(fd)
Close(tab, fd) == IF IsOpen(tab, fd) THEN [tab EXCEPT ![fd] = Free] ELSE tab

(***************************************************************************)
(* Programs.  exec succeeds for the names in Programs; a running program   *)
(* writes ProgOut to its descriptor 1 (at offset 0 of a freshly opened     *)
(* file) and exits.                                                        *)
(***************************************************************************)
Programs == {<<"a">>}
ProgOut(name) == <<"A">>

\* a write of bytes at offset 0 of a file holding old
WriteAt0(old, bytes) ==
    IF Len(bytes) >= Len(old) THEN bytes
    ELSE bytes \o SubSeq(old, Len(bytes) + 1, Len(old))

(***************************************************************************)
(* State.                                                                  *)
(***************************************************************************)
VARIABLES
    pc,         \* where the shell process is
    nread,      \* lines read so far
    buf,        \* main's buf, from its first character to its terminator
    last,       \* the static cursor of strtok_custom
    tok,        \* process_one_cmd's token array
    bg,         \* process_one_cmd's background flag
    commands,   \* the command strings of the pipeline being run
    i,          \* the loop counter of execute_piped_commands
    in_,        \* execute_piped_commands' current input descriptor
    sfd,        \* the shell's descriptor table
    procs,      \* the children the shell has forked, by pid
    files,      \* the file system: path -> content
    plog,       \* pipe, fork and wait calls of the current pipeline
    pipeAt,     \* for each pipe created: the line and stage that created it
    ret,        \* what the executor of the last line returned
    line,       \* the line last read, as it was read
    delim       \* the delimiter set of a caller that scans a buffer of its own

vars == <<pc, nread, buf, last, tok, bg, commands, i, in_, sfd, procs, files,
          plog, pipeAt, ret, line, delim>>

(***************************************************************************)
(* The lines the line source supplies.                                     *)
(***************************************************************************)
\* the words of a line joined by single spaces
RECURSIVE Join(_)
Join(ws) ==
    IF ws = <<>> THEN <<>>
    ELSE IF Len(ws) = 1 THEN ws[1]
    ELSE ws[1] \o <<" ">> \o Join(Tail(ws))

W_a == <<"a">>
W_n == <<"n">>
W_f == <<"f">>
W_exit == <<"e", "x", "i", "t">>
W_aa == <<"a", "|", "a">>
W_aaa == <<"a", "|", "a", "|", "a">>

Lines == {
    <<>>,
    Join(<<W_a>>),
    Join(<<W_n>>),
    Join(<<W_a, <<"&">>>>),
    Join(<<W_a, <<">">>, W_f>>),
    Join(<<W_a, <<"|">>, W_a>>),
    Join(<<W_a, W_a, <<"|">>, W_a, <<"|">>, W_a>>),
    Join(<<W_aa, <<"|">>, W_a>>),
    Join(<<W_aaa, <<"|">>, W_a>>),
    Join(<<W_exit>>) }

\* the target file does not exist, or exists with some content
InitFiles == { <<>>, (W_f :> <<"o", "l", "d">>) }

(***************************************************************************)
(* Children.                                                               *)
(***************************************************************************)
Pids == 1..Len(procs)

\* the shell process has exited; its children are then no longer followed
Exited == pc \in {"exited_builtin", "exited_eof", "exited_malloc"}
Unreaped == {p \in Pids : procs[p].st # "reaped"}
Zombies == {p \in Pids : procs[p].st = "zombie"}

\* fork() can succeed: the process table has a free slot
CanFork == Cardinality(Unreaped) < MaxProc

\* the child fork() creates: a copy of the shell's table (ffds as it was at
\* the fork, fds as the child changes it) and of the locals the child reads
NewProc(kind, argv, tab, stage, n, inFd, fdr, fdw, outFd) ==
    [kind |-> kind, line |-> nread, bg |-> bg, st |-> "forked",
     argv |-> argv, ffds |-> tab, fds |-> tab, stage |-> stage, n |-> n,
     inFd |-> inFd, fdr |-> fdr, fdw |-> fdw, outFd |-> outFd,
     execfail |-> FALSE, err |-> <<>>]

\* what the model keeps of a child once it has been reaped and another line
\* is read: the shell holds no record of a child wait() has returned
Gone == [kind |-> "gone", line |-> 0, bg |-> FALSE, st |-> "reaped",
         argv |-> <<>>, ffds |-> InitFds, fds |-> InitFds, stage |-> 0, n |-> 0,
         inFd |-> 0, fdr |-> -1, fdw |-> -1, outFd |-> -1,
         execfail |-> FALSE, err |-> <<>>]

Forget(ps) == [p \in 1..Len(ps) |-> IF ps[p].st = "reaped" THEN Gone ELSE ps[p]]

\* the argument vector as strings
ArgStrings(b, ptrs) == [k \in 1..Len(ptrs) |-> CStr(b, ptrs[k])]

Init ==
    /\ pc = "prompt"
    /\ nread = 0
    /\ buf = <<NUL>>
    /\ last = NULL_PTR
    /\ tok = <<>>
    /\ bg = FALSE
    /\ commands = <<>>
    /\ i = 0
    /\ in_ = 0
    /\ sfd = InitFds
    /\ procs = <<>>
    /\ files \in InitFiles
    /\ plog = <<>>
    /\ pipeAt = <<>>
    /\ ret = <<"none", 0>>
    /\ line = <<>>
    /\ delim = {}

(***************************************************************************)
(* wait(): reaps one terminated child, whichever it is; fails at once when *)
(* the caller has no children; blocks otherwise.                           *)
(***************************************************************************)
Wait ==
    \/ \E p \in Zombies : procs' = [procs EXCEPT ![p].st = "reaped"]
    \/ Unreaped = {} /\ procs' = procs

\* an executor returns r to process_one_cmd, which frees tok and returns to
\* main, which prints the prompt and clears buf (lines 314-315, 335-336)
ReturnToPrompt(r) ==
    /\ pc' = "prompt"
    /\ ret' = r
    /\ buf' = <<NUL>>
    /\ tok' = <<>>
    /\ bg' = FALSE
    /\ commands' = <<>>
    /\ i' = 0
    /\ in_' = 0

(***************************************************************************)
(* main (lines 318-340) and process_one_cmd (lines 233-316).               *)
(***************************************************************************)
\* lines 239-243: the number of tokens malloc makes room for, besides the
\* terminator
NumTok(l) == 1 + Len(SelectSeq(l, LAMBDA c : c = " "))

\* read returns one line; an empty line (n == 1) only reprints the prompt;
\* any other line is tokenized and classified.  When the split on `|` fills
\* commands[0..MAXTOKENS-1], line 291 stores past the end of the array:
\* execution goes on as if nothing happened, or in a way the source does
\* not determine (pc = "undefined")
ReadLine(l) ==
    /\ pc = "prompt"
    /\ nread < MaxLines
    /\ nread' = nread + 1
    /\ line' = l
    /\ ret' = <<"none", 0>>
    /\ procs' = Forget(procs)
    /\ UNCHANGED <<delim, sfd, files, pipeAt>>
    /\ IF l = <<>>
       THEN UNCHANGED <<pc, buf, last, tok, bg, commands, i, in_, plog>>
       ELSE LET t == Tokenize(l \o <<NUL>>, last) IN
            /\ tok' = t.tok
            /\ bg' = t.bg
            /\ i' = 0
            /\ in_' = 0
            /\ IF exit_check(t.buf, t.tok)
               THEN /\ pc' = "exit_wait"
                    /\ buf' = t.buf
                    /\ last' = t.last
                    /\ UNCHANGED <<commands, plog>>
               ELSE IF HasToken(t.buf, t.tok, "|")
               THEN LET s == SplitPipe(t.buf, t.last) IN
                    /\ buf' = s.buf
                    /\ last' = s.last
                    /\ commands' = s.commands
                    /\ plog' = <<<<"call", Len(s.commands)>>>>
                    /\ pc' \in IF Len(s.commands) = 0 THEN {"pipe_wait"}
                               ELSE IF Len(s.commands) < MAXTOKENS
                               THEN {"pipe_loop"}
                               ELSE {"pipe_loop", "undefined"}
               ELSE /\ buf' = t.buf
                    /\ last' = t.last
                    /\ UNCHANGED <<commands, plog>>
                    /\ pc' = IF HasToken(t.buf, t.tok, ">")
                             THEN "redir" ELSE "normal"

\* lines 245-249: malloc fails and the shell exits
ReadLineMallocFail(l) ==
    /\ pc = "prompt"
    /\ nread < MaxLines
    /\ l # <<>>
    /\ nread' = nread + 1
    /\ pc' = "exited_malloc"
    /\ UNCHANGED <<delim, buf, last, tok, bg, commands, i, in_, sfd, procs, files,
                   plog, pipeAt, ret, line>>

\* read returns 0: main leaves its loop and exits (lines 324, 339)
ReadEOF ==
    /\ pc = "prompt"
    /\ pc' = "exited_eof"
    /\ UNCHANGED <<delim, nread, buf, last, tok, bg, commands, i, in_, sfd, procs,
                   files, plog, pipeAt, ret, line>>

(***************************************************************************)
(* The exit builtin: wait_for_background_processes (lines 72-78) and the   *)
(* exit() of line 268.                                                     *)
(***************************************************************************)
\* one iteration of the loop whose wait() returned a pid
ExitReap ==
    /\ pc = "exit_wait"
    /\ \E p \in Zombies : procs' = [procs EXCEPT ![p].st = "reaped"]
    /\ UNCHANGED <<delim, pc, nread, buf, last, tok, bg, commands, i, in_, sfd,
                   files, plog, pipeAt, ret, line>>

\* the loop left without wait() having reported that no child remains
ExitDone_NoDrain ==
    /\ pc = "exit_wait"
    /\ pc' = "exited_builtin"
    /\ UNCHANGED <<delim, nread, buf, last, tok, bg, commands, i, in_, sfd, procs,
                   files, plog, pipeAt, ret, line>>

\* wait() returned -1: break, free(tok), exit()
ExitDone ==
    /\ pc = "exit_wait"
    /\ Unreaped = {}
    /\ pc' = "exited_builtin"
    /\ UNCHANGED <<delim, nread, buf, last, tok, bg, commands, i, in_, sfd, procs,
                   files, plog, pipeAt, ret, line>>

(***************************************************************************)
(* process_normal (lines 81-102).                                          *)
(***************************************************************************)
NormalForkFail ==
    /\ pc = "normal"
    /\ ReturnToPrompt(<<"process_normal", -1>>)
    /\ UNCHANGED <<delim, nread, last, sfd, procs, files, plog, pipeAt, line>>

NormalFork ==
    /\ pc = "normal"
    /\ CanFork
    /\ procs' = Append(procs,
           NewProc("normal", ArgStrings(buf, UpToNull(tok)), sfd,
                   0, 1, 0, -1, -1, -1))
    /\ IF bg
       THEN ReturnToPrompt(<<"process_normal", 0>>)
       ELSE /\ pc' = "normal_wait"
            /\ UNCHANGED <<ret, buf, tok, bg, commands, i, in_>>
    /\ UNCHANGED <<delim, nread, last, sfd, files, plog, pipeAt, line>>

NormalWait ==
    /\ pc = "normal_wait"
    /\ Wait
    /\ ReturnToPrompt(<<"process_normal", 0>>)
    /\ UNCHANGED <<delim, nread, last, sfd, files, plog, pipeAt, line>>

(***************************************************************************)
(* execute_piped_commands (lines 119-174).                                 *)
(***************************************************************************)
\* pipe(fd): the read end takes the lowest free slot, the write end the
\* next; ok is FALSE when fewer than two slots are free
PipeCall(tab, k) ==
    LET r == LowestFree(tab)
        t1 == IF r = -1 THEN tab ELSE [tab EXCEPT ![r] = PipeEnd(k, "r")]
        w == LowestFree(t1)
    IN IF r = -1 \/ w = -1
       THEN [ok |-> FALSE, tab |-> tab, r |-> -1, w |-> -1]
       ELSE [ok |-> TRUE, tab |-> [t1 EXCEPT ![w] = PipeEnd(k, "w")],
             r |-> r, w |-> w]

\* lines 161-164: the parent after a fork
ParentAfterFork(tab, inFd, w) ==
    Close(IF inFd # 0 THEN Close(tab, inFd) ELSE tab, w)

\* lines 129-139: the stage is tokenized, then pipe fails: return -1
PipeStagePipeFail ==
    /\ pc = "pipe_loop"
    /\ plog' = Append(plog, <<"pipefail", i>>)
    /\ last' = StageArgs(buf, last, commands[i + 1]).last
    /\ ReturnToPrompt(<<"execute_piped_commands", -1>>)
    /\ UNCHANGED <<delim, nread, sfd, procs, files, pipeAt, line>>

\* lines 129-145: pipe succeeds, then fork fails: return -1
PipeStageForkFail ==
    /\ pc = "pipe_loop"
    /\ LET pp == PipeCall(sfd, Len(pipeAt) + 1) IN
       /\ pp.ok
       /\ sfd' = pp.tab
       /\ pipeAt' = Append(pipeAt, <<nread, i>>)
    /\ plog' = Append(plog, <<"pipe", i>>)
    /\ last' = StageArgs(buf, last, commands[i + 1]).last
    /\ ReturnToPrompt(<<"execute_piped_commands", -1>>)
    /\ UNCHANGED <<delim, nread, procs, files, line>>

\* lines 124-166: one iteration of the loop with pipe and fork succeeding
PipeStage ==
    /\ pc = "pipe_loop"
    /\ CanFork
    /\ LET n == Len(commands)
           a == StageArgs(buf, last, commands[i + 1])
           pp == PipeCall(sfd, Len(pipeAt) + 1)
       IN /\ pp.ok
          /\ buf' = a.buf
          /\ last' = a.last
          /\ pipeAt' = Append(pipeAt, <<nread, i>>)
          /\ plog' = plog \o <<<<"pipe", i>>, <<"fork", i>>>>
          /\ procs' = Append(procs,
                 NewProc("pipe", ArgStrings(a.buf, a.args), pp.tab,
                         i, n, in_, pp.r, pp.w, -1))
          /\ sfd' = ParentAfterFork(pp.tab, in_, pp.w)
          /\ in_' = pp.r
          /\ IF i + 1 < n
             THEN i' = i + 1 /\ pc' = "pipe_loop"
             ELSE i' = 0 /\ pc' = "pipe_wait"
    /\ UNCHANGED <<delim, nread, tok, bg, commands, files, ret, line>>

\* the second loop stopping one wait short
WaitCount_OneShort(n) == n - 1

\* line 169: how many times the parent waits
WaitCount(n) == n

\* lines 169-171: one wait() of the second loop
PipeWait ==
    /\ pc = "pipe_wait"
    /\ i < WaitCount(Len(commands))
    /\ Wait
    /\ i' = i + 1
    /\ plog' = Append(plog, <<"wait", i>>)
    /\ UNCHANGED <<delim, pc, nread, buf, last, tok, bg, commands, in_, sfd, files,
                   pipeAt, ret, line>>

\* line 173: return 0
PipeReturn ==
    /\ pc = "pipe_wait"
    /\ i >= WaitCount(Len(commands))
    /\ ReturnToPrompt(<<"execute_piped_commands", 0>>)
    /\ UNCHANGED <<delim, nread, last, sfd, procs, files, plog, pipeAt, line>>

(***************************************************************************)
(* execute_redirection (lines 177-230).                                    *)
(***************************************************************************)
\* lines 184-193: k is the C index i; the result is cmd_args up to its
\* terminator and the outfile pointer
RECURSIVE RedirScan(_, _, _, _)
RedirScan(b, tk, k, args) ==
    IF tk[k + 1] # NULL_PTR /\ k < MAXTOKENS - 1
    THEN IF StrEq(b, tk[k + 1], <<">">>)
         THEN [args |-> args, outfile |-> tk[k + 2]]
         ELSE RedirScan(b, tk, k + 1, Append(args, tk[k + 1]))
    ELSE [args |-> args, outfile |-> NULL_PTR]

\* open(path, O_CREATE | O_WRONLY) on the file system: the file is created
\* empty when it does not exist and is left as it is when it does
OpenCreate(fs, path) ==
    IF path \in DOMAIN fs THEN fs ELSE fs @@ (path :> <<>>)

\* open fails and the function goes on to fork before it returns -1
RedirOpenFail_Forks ==
    /\ pc = "redir"
    /\ CanFork
    /\ LET sc == RedirScan(buf, tok, 0, <<>>) IN
       /\ sc.outfile # NULL_PTR
       /\ procs' = Append(procs,
              NewProc("redir", ArgStrings(buf, sc.args), sfd,
                      0, 1, 0, -1, -1, -1))
    /\ ReturnToPrompt(<<"execute_redirection", -1>>)
    /\ UNCHANGED <<delim, nread, last, sfd, files, plog, pipeAt, line>>

\* lines 195-200: open fails: return -1 without forking
RedirOpenFail ==
    /\ pc = "redir"
    /\ RedirScan(buf, tok, 0, <<>>).outfile # NULL_PTR
    /\ ReturnToPrompt(<<"execute_redirection", -1>>)
    /\ UNCHANGED <<delim, nread, last, sfd, procs, files, plog, pipeAt, line>>

\* lines 195-208: open succeeds (when there is a target), fork fails
RedirForkFail ==
    /\ pc = "redir"
    /\ LET sc == RedirScan(buf, tok, 0, <<>>)
           fd == LowestFree(sfd)
       IN IF sc.outfile # NULL_PTR
          THEN /\ fd # -1
               /\ sfd' = [sfd EXCEPT ![fd] = FileObj(CStr(buf, sc.outfile))]
               /\ files' = OpenCreate(files, CStr(buf, sc.outfile))
          ELSE UNCHANGED <<sfd, files>>
    /\ ReturnToPrompt(<<"execute_redirection", -1>>)
    /\ UNCHANGED <<delim, nread, last, procs, plog, pipeAt, line>>

\* lines 184-227 up to the wait: scan, open, fork, close in the parent
RedirFork ==
    /\ pc = "redir"
    /\ CanFork
    /\ LET sc == RedirScan(buf, tok, 0, <<>>)
           fd == IF sc.outfile # NULL_PTR THEN LowestFree(sfd) ELSE -1
           tab == IF sc.outfile # NULL_PTR /\ fd # -1
                  THEN [sfd EXCEPT ![fd] = FileObj(CStr(buf, sc.outfile))]
                  ELSE sfd
       IN /\ sc.outfile # NULL_PTR => fd # -1
          /\ files' = IF sc.outfile # NULL_PTR
                      THEN OpenCreate(files, CStr(buf, sc.outfile))
                      ELSE files
          /\ procs' = Append(procs,
                 NewProc("redir", ArgStrings(buf, sc.args), tab,
                         0, 1, 0, -1, -1, fd))
          /\ sfd' = IF sc.outfile # NULL_PTR THEN Close(tab, fd) ELSE tab
    /\ IF bg
       THEN ReturnToPrompt(<<"execute_redirection", 0>>)
       ELSE /\ pc' = "redir_wait"
            /\ UNCHANGED <<ret, buf, tok, bg, commands, i, in_>>
    /\ UNCHANGED <<delim, nread, last, plog, pipeAt, line>>

\* lines 223-229
RedirWait ==
    /\ pc = "redir_wait"
    /\ Wait
    /\ ReturnToPrompt(<<"execute_redirection", 0>>)
    /\ UNCHANGED <<delim, nread, last, sfd, files, plog, pipeAt, line>>

(***************************************************************************)
(* The children.                                                           *)
(***************************************************************************)
\* lines 148-156: the pipeline child before exec
PipeChildFds(c) ==
    LET t1 == IF c.inFd # 0 THEN Close(Dup(c.fds, c.inFd), c.inFd) ELSE c.fds
    IN IF c.stage < c.n - 1
       THEN Close(Close(Dup(t1, c.fdw), c.fdr), c.fdw)
       ELSE t1

\* lines 211-214: the redirection child before exec
RedirChildFds(c) ==
    IF c.outFd # -1 THEN Close(Dup(c.fds, c.outFd), c.outFd) ELSE c.fds

\* the descriptor table of child c when it calls exec
FdsAtExec(c) ==
    IF c.kind = "pipe" THEN PipeChildFds(c)
    ELSE IF c.kind = "redir" THEN RedirChildFds(c)
    ELSE c.fds

\* argv[0] as exec gets it
ProgName(c) == IF c.argv = <<>> THEN <<>> ELSE c.argv[1]

\* the child runs from fork to a successful exec (lines 90, 157, 215)
ChildExec(p) ==
    /\ ~Exited
    /\ p \in Pids
    /\ procs[p].st = "forked"
    /\ ProgName(procs[p]) \in Programs
    /\ procs' = [procs EXCEPT ![p].st = "running",
                              ![p].fds = FdsAtExec(procs[p])]
    /\ UNCHANGED <<delim, pc, nread, buf, last, tok, bg, commands, i, in_, sfd,
                   files, plog, pipeAt, ret, line>>

\* what the child prints on descriptor 2 when exec has returned
CannotRun(name) == <<"Cannot run this command", name>>

\* exec fails and the child carries on instead of calling exit()
ChildExecFail_NoExit(p) ==
    /\ ~Exited
    /\ p \in Pids
    /\ procs[p].st = "forked"
    /\ ProgName(procs[p]) \notin Programs
    /\ procs' = [procs EXCEPT ![p].st = "running",
                              ![p].fds = FdsAtExec(procs[p]),
                              ![p].execfail = TRUE,
                              ![p].err = CannotRun(ProgName(procs[p]))]
    /\ UNCHANGED <<delim, pc, nread, buf, last, tok, bg, commands, i, in_, sfd,
                   files, plog, pipeAt, ret, line>>

\* exec fails: the child reports it and exits (lines 91-92, 158-159, 216-217)
ChildExecFail(p) ==
    /\ ~Exited
    /\ p \in Pids
    /\ procs[p].st = "forked"
    /\ ProgName(procs[p]) \notin Programs
    /\ procs' = [procs EXCEPT ![p].st = "zombie",
                              ![p].fds = FdsAtExec(procs[p]),
                              ![p].execfail = TRUE,
                              ![p].err = CannotRun(ProgName(procs[p]))]
    /\ UNCHANGED <<delim, pc, nread, buf, last, tok, bg, commands, i, in_, sfd,
                   files, plog, pipeAt, ret, line>>

\* the program writes its output to descriptor 1 and exits
ChildRun(p) ==
    /\ ~Exited
    /\ p \in Pids
    /\ procs[p].st = "running"
    /\ procs' = [procs EXCEPT ![p].st = "zombie"]
    /\ LET out == procs[p].fds[1] IN
       files' = IF out.t = "file"
                THEN [files EXCEPT ![out.e] =
                          WriteAt0(@, ProgOut(ProgName(procs[p])))]
                ELSE files
    /\ UNCHANGED <<delim, pc, nread, buf, last, tok, bg, commands, i, in_, sfd,
                   plog, pipeAt, ret, line>>

MaxPid == 3 * MaxLines

Next ==
    \/ \E l \in Lines : ReadLine(l)
    \/ \E l \in Lines : ReadLineMallocFail(l)
    \/ ReadEOF
    \/ ExitReap
    \/ ExitDone
    \/ NormalForkFail
    \/ NormalFork
    \/ NormalWait
    \/ PipeStagePipeFail
    \/ PipeStageForkFail
    \/ PipeStage
    \/ PipeWait
    \/ PipeReturn
    \/ RedirOpenFail
    \/ RedirForkFail
    \/ RedirFork
    \/ RedirWait
    \/ \E p \in 1..MaxPid : ChildExec(p)
    \/ \E p \in 1..MaxPid : ChildExecFail(p)
    \/ \E p \in 1..MaxPid : ChildRun(p)

Spec == Init /\ [][Next]_vars

\* a step of some child
ChildStep == \E p \in 1..MaxPid : ChildExec(p) \/ ChildExecFail(p) \/ ChildRun(p)

\* the shell in its exit loop and the children keep running as long as they
\* can take a step (a child takes at most two steps, so no child is starved)
FairSpec ==
    /\ Spec
    /\ WF_vars(ExitReap \/ ExitDone)
    /\ WF_vars(ChildStep)

(***************************************************************************)
(* Command lines that name a program exec cannot run (`n`), in each of the *)
(* three shapes.  The shell process runs whenever it is runnable, and so   *)
(* do its children; only the arrival of a line is up to the line source.   *)
(***************************************************************************)
W_an == <<"a", "|", "n">>

ExecFailLines == {
    Join(<<W_n>>),
    Join(<<W_n, <<"&">>>>),
    Join(<<W_n, <<">">>, W_f>>),
    Join(<<W_n, <<"|">>, W_a>>),
    Join(<<W_an, <<"|">>, W_a>>),
    Join(<<W_a>>) }

\* a step of the shell inside an executor
ShellRun ==
    \/ NormalForkFail \/ NormalFork \/ NormalWait
    \/ PipeStagePipeFail \/ PipeStageForkFail \/ PipeStage
    \/ PipeWait \/ PipeReturn
    \/ RedirOpenFail \/ RedirForkFail \/ RedirFork \/ RedirWait

ExecFailNext ==
    \/ \E l \in ExecFailLines : ReadLine(l)
    \/ \E l \in ExecFailLines : ReadLineMallocFail(l)
    \/ ReadEOF
    \/ NormalForkFail
    \/ NormalFork
    \/ NormalWait
    \/ PipeStagePipeFail
    \/ PipeStageForkFail
    \/ PipeStage
    \/ PipeWait
    \/ PipeReturn
    \/ RedirOpenFail
    \/ RedirForkFail
    \/ RedirFork
    \/ RedirWait
    \/ \E p \in 1..MaxPid : ChildExec(p)
    \/ \E p \in 1..MaxPid : ChildExecFail(p)
    \/ \E p \in 1..MaxPid : ChildRun(p)

ExecFailSpec ==
    /\ Init
    /\ [][ExecFailNext]_vars
    /\ WF_vars(ShellRun)
    /\ WF_vars(ChildStep)

(***************************************************************************)
(* One command line, any short buffer: main reads a single line and        *)
(* process_one_cmd parses it and hands it to process_normal or             *)
(* execute_redirection, which run it to the end.  The lines are every      *)
(* buffer of at most MaxLen characters over Alphabet, and a few long lines *)
(* that fill the fixed-size arrays.                                        *)
(***************************************************************************)
\* length of the buffers enumerated in full
MaxLen == 5

Alphabet == {"a", " ", "&", ">", "|"}

Buffers == UNION {[1..n -> Alphabet] : n \in 1..MaxLen}

\* k copies of the word w
Copies(w, k) == [j \in 1..k |-> w]

\* k words `a`, then `> f`
LongRedir(k) == Join(Copies(W_a, k) \o <<<<">">>, W_f>>)

\* a first word of k segments `a` separated by `|`, then `| a`
RECURSIVE Segments(_)
Segments(k) == IF k = 1 THEN W_a ELSE W_a \o <<"|">> \o Segments(k - 1)

LongPipe(k) == Join(<<Segments(k), <<"|">>, W_a>>)

LongLines == {
    LongRedir(MAXTOKENS - 2), LongRedir(MAXTOKENS - 1),
    LongPipe(MAXTOKENS - 1), LongPipe(MAXTOKENS),
    Join(<<W_exit>>), Join(<<W_exit, W_a>>), Join(<<W_a, W_exit>>),
    Join(<<W_n, <<">">>, W_f>>) }

ParseLines == Buffers \cup LongLines

\* main reads its first line
ParseLine == nread = 0 /\ \E l \in ParseLines : ReadLine(l)

ParseNext ==
    \/ ParseLine
    \/ ExitDone
    \/ NormalForkFail
    \/ NormalFork
    \/ NormalWait
    \/ RedirOpenFail
    \/ RedirForkFail
    \/ RedirFork
    \/ RedirWait
    \/ \E p \in 1..MaxPid : ChildExec(p)
    \/ \E p \in 1..MaxPid : ChildExecFail(p)
    \/ \E p \in 1..MaxPid : ChildRun(p)

ParseSpec == Init /\ [][ParseNext]_vars

(***************************************************************************)
(* strtok_custom on its own: a caller passes a buffer once and the null    *)
(* pointer afterwards, always with the same delimiter set.  line is the    *)
(* buffer as it was passed, buf the buffer as strtok_custom leaves it, tok *)
(* the pointers returned so far, one per call.  The static cursor starts   *)
(* null or left over from a scan of another string.                        *)
(***************************************************************************)
TokAlphabet == {"a", " ", "|"}

TokBuffers == UNION {[1..n -> TokAlphabet] : n \in 0..MaxLen}

Delims == SUBSET TokAlphabet

TokInit ==
    /\ pc = "strtok_first"
    /\ line \in TokBuffers
    /\ buf = line \o <<NUL>>
    /\ delim \in Delims
    /\ last \in {NULL_PTR, 1}
    /\ tok = <<>>
    /\ nread = 0
    /\ bg = FALSE
    /\ commands = <<>>
    /\ i = 0
    /\ in_ = 0
    /\ sfd = InitFds
    /\ procs = <<>>
    /\ files = <<>>
    /\ plog = <<>>
    /\ pipeAt = <<>>
    /\ ret = <<"none", 0>>

\* strtok_custom(buf, delim)
StrtokFirst ==
    /\ pc = "strtok_first"
    /\ LET r == strtok_custom(buf, last, 1, delim) IN
       /\ buf' = r.buf
       /\ last' = r.last
       /\ tok' = <<r.tok>>
    /\ pc' = "strtok_next"
    /\ UNCHANGED <<delim, nread, bg, commands, i, in_, sfd, procs, files,
                   plog, pipeAt, ret, line>>

\* strtok_custom(NULL_PTR, delim); the caller makes at most MaxLen such calls
StrtokNext ==
    /\ pc = "strtok_next"
    /\ Len(tok) <= MaxLen
    /\ LET r == strtok_custom(buf, last, NULL_PTR, delim) IN
       /\ buf' = r.buf
       /\ last' = r.last
       /\ tok' = Append(tok, r.tok)
    /\ UNCHANGED <<delim, pc, nread, bg, commands, i, in_, sfd, procs, files,
                   plog, pipeAt, ret, line>>

TokNext == StrtokFirst \/ StrtokNext

TokSpec == TokInit /\ [][TokNext]_vars

(***************************************************************************)
(* Properties.                                                             *)
(***************************************************************************)
\* the children that have called exec: fds is their table at that moment
Execed == {p \in Pids : procs[p].kind # "gone" /\ procs[p].st # "forked"}

\* execute_piped_commands has just been called by process_one_cmd
PipedCalled == pc \in {"pipe_loop", "pipe_wait"} /\ Len(plog) = 1

\* the whitespace split of a line: its maximal runs of non-space characters
RECURSIVE WordsOf(_, _, _)
WordsOf(l, cur, acc) ==
    IF l = <<>> THEN (IF cur = <<>> THEN acc ELSE Append(acc, cur))
    ELSE IF Head(l) = " "
         THEN WordsOf(Tail(l), <<>>, IF cur = <<>> THEN acc ELSE Append(acc, cur))
         ELSE WordsOf(Tail(l), Append(cur, Head(l)), acc)

\* the words of a line grouped into the commands its `|` words separate
RECURSIVE GroupsOf(_, _, _)
GroupsOf(ws, cur, acc) ==
    IF ws = <<>> THEN Append(acc, cur)
    ELSE IF Head(ws) = <<"|">>
         THEN GroupsOf(Tail(ws), <<>>, Append(acc, cur))
         ELSE GroupsOf(Tail(ws), Append(cur, Head(ws)), acc)

LineGroups(l) == GroupsOf(WordsOf(l, <<>>, <<>>), <<>>, <<>>)

\* k+1 non-empty commands separated by k >= 1 `|` words
IsPipelineLine(l) ==
    /\ Len(LineGroups(l)) >= 2
    /\ Len(LineGroups(l)) <= MAXTOKENS
    /\ \A k \in 1..Len(LineGroups(l)) : LineGroups(l)[k] # <<>>

\* the stages handed to execute_piped_commands, each whitespace-tokenized
HandedStages ==
    [k \in 1..Len(commands) |->
        LET a == StageArgs(buf, last, commands[k]) IN ArgStrings(a.buf, a.args)]

\* C1 (as claimed): when process_one_cmd calls execute_piped_commands for a
\* line of k+1 non-empty commands separated by `|` words, it hands over k+1
\* stages and stage i tokenizes to the words of the i-th command.
C1_StagesAreTheCommands ==
    (PipedCalled /\ IsPipelineLine(line)) => HandedStages = LineGroups(line)

\* the pipe created at stage j of the pipeline of line ln, 0 when none
PipeOfStage(ln, j) ==
    IF \E k \in 1..Len(pipeAt) : pipeAt[k] = <<ln, j>>
    THEN CHOOSE k \in 1..Len(pipeAt) : pipeAt[k] = <<ln, j>>
    ELSE 0

\* C2 (as claimed): when a child of an N >= 2 stage pipeline calls exec, its
\* descriptor 1 is the write end of its own stage's pipe unless it is the
\* last stage, and its descriptor 0 is the read end of the previous stage's
\* pipe unless it is the first stage.
C2_StagesAreWired ==
    \A p \in Execed :
        LET c == procs[p] IN
        (c.kind = "pipe" /\ c.n >= 2) =>
            /\ c.stage < c.n - 1 =>
                   c.fds[1] = PipeEnd(PipeOfStage(c.line, c.stage), "w")
            /\ c.stage > 0 =>
                   c.fds[0] = PipeEnd(PipeOfStage(c.line, c.stage - 1), "r")

\* C3 (as claimed): when the child of execute_redirection calls exec after a
\* target file was opened, its descriptor 1 is that file and the descriptor
\* open() returned is closed.
C3_StdoutIsTheTarget ==
    \A p \in Execed :
        LET c == procs[p] IN
        (c.kind = "redir" /\ c.outFd # -1) =>
            /\ c.fds[1] = c.ffds[c.outFd]
            /\ c.fds[c.outFd] = Free

\* C4 (as claimed): when the shell is back at the prompt after a foreground
\* plain or redirected command, the child forked for it has terminated.
C4_ForegroundChildDone ==
    pc = "prompt" =>
        \A p \in Pids :
            (procs[p].kind \in {"normal", "redir"} /\ procs[p].line = nread
                 /\ ~procs[p].bg)
            => procs[p].st \in {"zombie", "reaped"}

\* C5 (as claimed): when execute_piped_commands has returned 0, every child
\* it forked for that line has terminated and been reaped.
C5_PipelineChildrenReaped ==
    ret = <<"execute_piped_commands", 0>> =>
        \A p \in Pids :
            (procs[p].kind = "pipe" /\ procs[p].line = nread)
            => procs[p].st = "reaped"

\* C6: the shell that exits through the exit builtin has no child left,
\* running or unreaped; and, its children terminating when they can, the
\* shell that waits in the exit builtin eventually exits.
C6_ExitDrainsChildren ==
    /\ [](pc = "exited_builtin" => Unreaped = {})
    /\ (pc = "exit_wait") ~> (pc = "exited_builtin")

\* the exit builtin has exited after reaping a child in its wait loop
C6_Witness ==
    /\ pc = "exited_builtin"
    /\ \E p \in Pids : procs[p].kind # "gone" /\ procs[p].st = "reaped"

\* the events of the current pipeline's log named nm
Events(nm) == SelectSeq(plog, LAMBDA e : e[1] = nm)

\* execute_piped_commands has returned 0 for a pipeline of plog[1][2] stages
PipedReturnedOk == ret = <<"execute_piped_commands", 0>>

\* C7 (as claimed): a pipeline of N >= 1 stages that ran without failure
\* has created exactly N-1 pipes.
C7_OnePipeLessThanStages ==
    (PipedReturnedOk /\ plog[1][2] >= 1) =>
        Len(Events("pipe")) = plog[1][2] - 1

\* C8: no fork of a pipeline follows one of its waits; and a pipeline of N
\* stages that has returned 0 has forked stages 0..N-1 in that order and
\* has waited N times.
C8_ForksThenWaits ==
    /\ \A a, b \in 1..Len(plog) :
           (plog[a][1] = "wait" /\ plog[b][1] = "fork") => b < a
    /\ PipedReturnedOk =>
           /\ Events("fork") = [k \in 1..plog[1][2] |-> <<"fork", k - 1>>]
           /\ Len(Events("wait")) = plog[1][2]

\* a pipeline of three stages has returned 0
C8_Witness == PipedReturnedOk /\ plog[1][2] = 3

\* C9 (as claimed): when a pipeline child calls exec, its only descriptors
\* that are pipe ends are its descriptors 0 and 1.
C9_NoStrayPipeEnds ==
    \A p \in Execed :
        procs[p].kind = "pipe" =>
            \A fd \in Fds \ {0, 1} : procs[p].fds[fd].t # "pipe"

\* C10 (as claimed): once the child of a foreground `cmd > path` has run cmd
\* and terminated and the shell is back at the prompt, the file at path
\* holds exactly what cmd wrote to its descriptor 1.
C10_FileHoldsTheOutput ==
    (pc = "prompt" /\ ret = <<"execute_redirection", 0>>) =>
        \A p \in Pids :
            LET c == procs[p] IN
            (c.kind = "redir" /\ c.line = nread /\ ~c.bg /\ c.outFd # -1
                 /\ ~c.execfail /\ c.st \in {"zombie", "reaped"})
            => files[c.ffds[c.outFd].e] = ProgOut(ProgName(c))

\* the whitespace split of a whole line
Words(l) == WordsOf(l, <<>>, <<>>)

\* process_one_cmd has called process_normal or execute_redirection with
\* tok and bg
ExecutorCalled == pc \in {"normal", "redir"}

\* C11 (as claimed): when process_one_cmd calls its executor, bg is set
\* exactly when the last word of the line is `&`; the argument sequence is
\* then every word before that marker, and otherwise every word of the line.
C11_BackgroundIffLastIsAmp ==
    ExecutorCalled =>
        LET ws == Words(line)
            marked == ws # <<>> /\ ws[Len(ws)] = <<"&">>
        IN /\ bg <=> marked
           /\ ArgStrings(buf, UpToNull(tok)) =
                  IF marked THEN SubSeq(ws, 1, Len(ws) - 1) ELSE ws

\* ws has a word equal to the one-character word sym
HasWord(ws, sym) == \E k \in 1..Len(ws) : ws[k] = <<sym>>

\* position in ws of its first word `>`
FirstGt(ws) == CHOOSE k \in 1..Len(ws) :
                   ws[k] = <<">">> /\ \A j \in 1..(k - 1) : ws[j] # <<">">>

\* a line with a `>` word followed by a target word, and no `|` word; the
\* lines with a `&` word and the exit builtin are the subject of C11 and C6
IsRedirLine(l) ==
    LET ws == Words(l) IN
    /\ HasWord(ws, ">") /\ ~HasWord(ws, "|") /\ ~HasWord(ws, "&")
    /\ ws[1] # W_exit
    /\ FirstGt(ws) < Len(ws)

\* C12 (as claimed): the child forked for a line with a `>` word and no `|`
\* word is execute_redirection's; its argument vector is exactly the words
\* before the first `>`, and the one file opened for it is the word right
\* after that `>`, whatever else follows.
C12_RedirectionSplitsAtGt ==
    IsRedirLine(line) =>
        \A p \in Pids :
            LET c == procs[p]
                ws == Words(line)
                g == FirstGt(ws)
            IN /\ c.kind = "redir"
               /\ c.argv = SubSeq(ws, 1, g - 1)
               /\ c.outFd # -1
               /\ c.ffds = [InitFds EXCEPT ![c.outFd] = FileObj(ws[g + 1])]

\* a line with no control word (`&`, `|`, `>`) whose first word is not exit
IsPlainLine(l) ==
    LET ws == Words(l) IN
    /\ ~HasWord(ws, "&") /\ ~HasWord(ws, "|") /\ ~HasWord(ws, ">")
    /\ ws # <<>> => ws[1] # W_exit

\* C13: every step that reads a non-empty line with no control word and no
\* leading exit ends in the call of process_normal with bg = 0 and a token
\* array that holds the whitespace split of the line followed by its null
\* terminator.
C13_PlainLineToProcessNormal ==
    [][(nread' = nread + 1 /\ line' # <<>> /\ IsPlainLine(line')) =>
          /\ pc' = "normal"
          /\ ~bg'
          /\ Len(UpToNull(tok')) < Len(tok')
          /\ ArgStrings(buf', UpToNull(tok')) = Words(line')]_vars

\* process_normal has been called for a plain line of two words that fills
\* a buffer of MaxLen characters
C13_Witness ==
    /\ pc = "normal"
    /\ IsPlainLine(line)
    /\ Len(Words(line)) = 2
    /\ Len(line) = MaxLen

\* the maximal non-empty runs of characters of l that are not in d
RECURSIVE RunsOf(_, _, _, _)
RunsOf(l, d, cur, acc) ==
    IF l = <<>> THEN (IF cur = <<>> THEN acc ELSE Append(acc, cur))
    ELSE IF Head(l) \in d
         THEN RunsOf(Tail(l), d, <<>>, IF cur = <<>> THEN acc ELSE Append(acc, cur))
         ELSE RunsOf(Tail(l), d, Append(cur, Head(l)), acc)

\* C14: the k-th call of a scan returns the k-th maximal run of non-delimiter
\* characters of the buffer as it was passed; every call after the last run
\* returns the null pointer, and from the first such call on the cursor is
\* null.
C14_TokensAreTheRuns ==
    pc = "strtok_next" =>
        LET runs == RunsOf(line, delim, <<>>, <<>>) IN
        /\ \A k \in 1..Len(tok) :
               IF k <= Len(runs)
               THEN tok[k] # NULL_PTR /\ CStr(buf, tok[k]) = runs[k]
               ELSE tok[k] = NULL_PTR
        /\ Len(tok) > Len(runs) => last = NULL_PTR

\* a scan that skipped leading delimiters, returned two tokens separated by
\* two delimiters and then reported no more tokens twice
C14_Witness ==
    /\ pc = "strtok_next"
    /\ Len(tok) = 4
    /\ tok[1] = 2 /\ tok[2] = 5
    /\ tok[3] = NULL_PTR /\ tok[4] = NULL_PTR

\* the shell is inside the executor of the current line, and exec has failed
\* in a child forked for that line
ExecFailedInLine ==
    /\ pc \in {"normal_wait", "redir_wait", "pipe_loop", "pipe_wait"}
    /\ \E p \in Pids : procs[p].execfail /\ procs[p].line = nread

\* C15: a child whose exec failed has printed the message naming the program
\* it was given and has terminated, in whatever shape it was forked; and the
\* shell that is running the line of such a child gets back to the prompt.
C15_ExecFailureIsSurvived ==
    /\ [](\A p \in Pids :
             procs[p].execfail =>
                 /\ procs[p].st \in {"zombie", "reaped"}
                 /\ procs[p].err = CannotRun(ProgName(procs[p])))
    /\ ExecFailedInLine ~> (pc = "prompt")

\* the shell is back at the prompt after a pipeline whose second stage
\* failed to exec and was reaped, exec having failed too in the background
\* child of the line before
C15_Witness ==
    /\ pc = "prompt"
    /\ nread = 2
    /\ \E p, q \in Pids :
           /\ procs[p].execfail /\ procs[p].kind = "pipe" /\ procs[p].stage = 1
           /\ procs[p].st = "reaped"
           /\ procs[q].execfail /\ procs[q].kind = "normal" /\ procs[q].bg

\* C16 (as claimed): the shell process has exited only through the exit
\* builtin or at end-of-input.
C16_OnlyExitOrEofEndsTheShell ==
    Exited => pc \in {"exited_builtin", "exited_eof"}

\* C17: a step of execute_redirection in which open fails for the target
\* (the function returns -1 and the shell's descriptor table has not
\* changed) forks no child: the shell's children are what they were, and so
\* is the file system.
C17_OpenFailureForksNothing ==
    [][(/\ pc = "redir"
        /\ RedirScan(buf, tok, 0, <<>>).outfile # NULL_PTR
        /\ ret' = <<"execute_redirection", -1>>
        /\ sfd' = sfd)
       => (procs' = procs /\ files' = files /\ pc' = "prompt")]_vars

\* open has failed for `a > f`: the shell is at the prompt with no child and
\* the target file was not created
C17_Witness ==
    /\ pc = "prompt"
    /\ ret = <<"execute_redirection", -1>>
    /\ nread = 1
    /\ line = Join(<<W_a, <<">">>, W_f>>)
    /\ W_f \notin DOMAIN files
    /\ procs = <<>>

\* C18 (as claimed): each time the shell is at the prompt its descriptor
\* table is what it was before the first line: the console on 0, 1 and 2 and
\* nothing else.
C18_PromptHasNoStrayDescriptor ==
    pc = "prompt" => sfd = InitFds

\* C19 (as claimed): the terminator of commands is stored at an index below
\* MAXTOKENS, and so are the terminators of args and cmd_args, which follow
\* the argument vector of a child; the token array with its terminator fits
\* in the num_tok + 1 entries allocated; no store has left its array.
C19_WritesStayInBounds ==
    /\ pc # "undefined"
    /\ Len(commands) < MAXTOKENS
    /\ \A p \in Pids : Len(procs[p].argv) < MAXTOKENS
    /\ tok # <<>> => Len(tok) <= NumTok(line) + 1

====
